---- MODULE Spec2Model ----
(***************************************************************************)
(* MaterializedQueryResult (src/main/materialized_query_result.cpp).       *)
(*                                                                         *)
(* One result object and its single consumer.  The object's fields are     *)
(* the variables success, error, collection, row_collection, scan_state    *)
(* and scan_initialized; every public method is one action.  The           *)
(* remaining variables record what the consumer has observed: the outcome  *)
(* of the last call (ret), the rows delivered by FetchRaw so far           *)
(* (fetched), the number of end-of-stream signals (eos), the stores        *)
(* handed out by TakeCollection (taken), the store given to the            *)
(* constructor (orig) and one remembered GetValue answer (pinned).         *)
(*                                                                         *)
(* A unique_ptr is modelled as a sequence of length at most one:           *)
(* <<>> is the null pointer, <<x>> owns x.                                 *)
(*                                                                         *)
(* Spec starts from an error result or from a store of INTEGER and VARCHAR *)
(* columns; SpecTypes starts from one-row stores over every logical type   *)
(* the conversion of getContents distinguishes.                            *)
(***************************************************************************)
EXTENDS Integers, Sequences, FiniteSets, TLC

\* ---- bounds of the model ------------------------------------------------
MaxRows == 3
MaxNulls == 2
\* rows per stored chunk (stands for STANDARD_VECTOR_SIZE)
VectorSize == 2
\* end-of-stream signals the consumer asks for before it stops fetching
MaxEos == 2
\* rows the consumer accepts from FetchRaw before it stops fetching
MaxDelivered == 6
\* stores the consumer accepts from TakeCollection before it stops taking
MaxTakes == 2

ErrorMessages == {"division by zero"}

\* column types of the stores built by Init: a store has the first one or
\* the first two of these columns
DefaultTypes == <<"INTEGER", "VARCHAR">>
MaxCols == Len(DefaultTypes)

VARIABLES success, error, collection, row_collection, scan_state,
          scan_initialized, orig, taken, ret, fetched, eos, pinned

vars == <<success, error, collection, row_collection, scan_state,
          scan_initialized, orig, taken, ret, fetched, eos, pinned>>

fields == <<success, error, collection, row_collection, scan_state,
            scan_initialized>>

\* ---- the buffered row store (ColumnDataCollection) -----------------------
Min(a, b) == IF a < b THEN a ELSE b

\* a Value: logical type, null flag, payload (0 for NULL)
MakeValue(t, isnull, i, c) ==
  [type |-> t, null |-> isnull, v |-> IF isnull THEN 0 ELSE i * 10 + c + 1]

MakeRow(i, ncols, nulls) ==
  [c \in 1..ncols |-> MakeValue(DefaultTypes[c], <<i, c - 1>> \in nulls, i, c - 1)]

\* rows i..n-1 cut into chunks of VectorSize rows, the last one shorter
RECURSIVE MakeChunks(_, _, _, _)
MakeChunks(i, n, ncols, nulls) ==
  IF i >= n THEN <<>>
  ELSE LET k == Min(VectorSize, n - i)
       IN  <<[j \in 1..k |-> MakeRow(i + j - 1, ncols, nulls)]>>
             \o MakeChunks(i + k, n, ncols, nulls)

MakeCollection(n, ncols, nulls) ==
  [types |-> SubSeq(DefaultTypes, 1, ncols),
   chunks |-> MakeChunks(0, n, ncols, nulls)]

RECURSIVE Flatten(_)
Flatten(chunks) ==
  IF chunks = <<>> THEN <<>> ELSE Head(chunks) \o Flatten(Tail(chunks))

\* ColumnDataCollection::Count, ColumnCount, GetRows / Rows
Count(coll) == Len(Flatten(coll.chunks))
ColumnCount(coll) == Len(coll.types)
GetRows(coll) == Flatten(coll.chunks)

\* ColumnDataCollection::InitializeScan: the cursor before the first chunk
InitializeScan == <<0>>

\* ColumnDataCollection::Scan: the chunk under the cursor, empty at the end
ScanChunk(coll, st) ==
  IF st[1] < Len(coll.chunks) THEN coll.chunks[st[1] + 1] ELSE <<>>

ScanNext(coll, st) ==
  IF st[1] < Len(coll.chunks) THEN <<st[1] + 1>> ELSE st

\* unique_ptr::operator-> on a null pointer: the exception kind it throws
NullPointerError == "internal"

\* BaseQueryResult::HasError / GetError
HasError == ~success
GetError == error

\* the outcome of a call as its caller sees it
Outcome(op, args, status, val) ==
  [op |-> op, args |-> args, status |-> status, val |-> val,
   taken_before |-> taken # <<>>]

Ok(op, args, val) == Outcome(op, args, "ok", <<val>>)
Throw(op, args, kind) == Outcome(op, args, kind, <<>>)

\* ---- construction ---------------------------------------------------------
Positions(n, ncols) == (0..(n - 1)) \X (0..(ncols - 1))

NullSets(n, ncols) ==
  {s \in SUBSET Positions(n, ncols) : Cardinality(s) <= MaxNulls}

Observers ==
  /\ taken = <<>>
  /\ ret = Outcome("Construct", <<>>, "ok", <<>>)
  /\ fetched = <<>>
  /\ eos = 0
  /\ pinned = <<>>

\* MaterializedQueryResult(statement_type, properties, names, collection, ...)
ConstructSuccess ==
  \E n \in 0..MaxRows, ncols \in 1..MaxCols :
    \E nulls \in NullSets(n, ncols) :
      /\ success = TRUE
      /\ error = ""
      /\ collection = <<MakeCollection(n, ncols, nulls)>>
      /\ orig = collection
      /\ row_collection = <<>>
      /\ scan_state = <<>>
      /\ scan_initialized = FALSE

\* MaterializedQueryResult(ErrorData error)
ConstructError ==
  \E msg \in ErrorMessages :
    /\ success = FALSE
    /\ error = msg
    /\ collection = <<>>
    /\ orig = <<>>
    /\ row_collection = <<>>
    /\ scan_state = <<>>
    /\ scan_initialized = FALSE

Init == (ConstructSuccess \/ ConstructError) /\ Observers

\* ---- FetchRaw -------------------------------------------------------------
\* faulty variant: the cursor is initialized on every call
ScanStart_EveryCall == InitializeScan

\* faulty variant: an exhausted cursor is initialized again
ScanStart_Rewind ==
  IF ~scan_initialized \/ scan_state[1] >= Len(collection[1].chunks)
    THEN InitializeScan
    ELSE scan_state

\* the cursor the call scans from: initialized on the first call only
ScanStart == IF ~scan_initialized THEN InitializeScan ELSE scan_state

\* faulty variant: the scan-started flag is set before the store is touched
FetchRaw_FlagFirst ==
  /\ eos < MaxEos
  /\ Len(fetched) < MaxDelivered
  /\ IF HasError
       THEN /\ ret' = Throw("FetchRaw", <<>>, "invalid_input")
            /\ UNCHANGED <<fields, orig, taken, fetched, eos, pinned>>
     ELSE IF collection = <<>>
       THEN /\ ret' = Throw("FetchRaw", <<>>, NullPointerError)
            /\ scan_initialized' = TRUE
            /\ UNCHANGED <<success, error, collection, row_collection,
                           scan_state, orig, taken, fetched, eos, pinned>>
     ELSE LET coll == collection[1]
              st == ScanStart
              result == ScanChunk(coll, st)
          IN  /\ scan_state' = ScanNext(coll, st)
              /\ scan_initialized' = TRUE
              /\ ret' = IF Len(result) = 0
                          THEN Outcome("FetchRaw", <<>>, "ok", <<>>)
                          ELSE Ok("FetchRaw", <<>>, result)
              /\ fetched' = fetched \o result
              /\ eos' = IF Len(result) = 0 THEN eos + 1 ELSE eos
              /\ UNCHANGED <<success, error, collection, row_collection,
                             orig, taken, pinned>>

FetchRaw ==
  /\ eos < MaxEos
  /\ Len(fetched) < MaxDelivered
  /\ IF HasError
       THEN /\ ret' = Throw("FetchRaw", <<>>, "invalid_input")
            /\ UNCHANGED <<fields, orig, taken, fetched, eos, pinned>>
     ELSE IF collection = <<>>
       THEN /\ ret' = Throw("FetchRaw", <<>>, NullPointerError)
            /\ UNCHANGED <<fields, orig, taken, fetched, eos, pinned>>
     ELSE LET coll == collection[1]
              st == ScanStart
              result == ScanChunk(coll, st)
          IN  /\ scan_state' = ScanNext(coll, st)
              /\ scan_initialized' = TRUE
              /\ ret' = IF Len(result) = 0
                          THEN Outcome("FetchRaw", <<>>, "ok", <<>>)
                          ELSE Ok("FetchRaw", <<>>, result)
              /\ fetched' = fetched \o result
              /\ eos' = IF Len(result) = 0 THEN eos + 1 ELSE eos
              /\ UNCHANGED <<success, error, collection, row_collection,
                             orig, taken, pinned>>

\* MaterializedQueryResult::Fetch
Fetch == FetchRaw

\* ---- GetValue --------------------------------------------------------------
\* the (column, index) pairs a caller passes
AnyArgs == (0..(MaxCols - 1)) \X (0..(MaxRows - 1))

\* the pairs that name a cell of a view
InRange(rows, column, index) ==
  /\ index < Len(rows)
  /\ column < Len(rows[index + 1])

\* vector::operator[] with an index past the end: the exception kind it throws
IndexError == "internal"

\* ColumnDataRowCollection::GetValue(column, index)
RowCollectionGetValue(rows, column, index) == rows[index + 1][column + 1]

\* the chunks a cursor has not passed yet
RemainingRows(coll, st) ==
  IF st = <<>> THEN GetRows(coll)
  ELSE Flatten(SubSeq(coll.chunks, st[1] + 1, Len(coll.chunks)))

\* faulty variant: the view is built with the streaming cursor
BuildRowCollection_FromCursor == <<RemainingRows(collection[1], scan_state)>>

\* make_uniq<ColumnDataRowCollection>(collection->GetRows())
BuildRowCollection == <<GetRows(collection[1])>>

Pin(column, index, val, pin) ==
  IF pinned = <<>> /\ pin
    THEN <<[column |-> column, index |-> index, val |-> val]>>
    ELSE pinned

\* faulty variant: the view is built again on every call
GetValue_AlwaysBuild ==
  IF collection = <<>>
    THEN \E a \in AnyArgs :
           /\ ret' = Throw("GetValue", a, NullPointerError)
           /\ UNCHANGED <<fields, orig, taken, fetched, eos, pinned>>
    ELSE LET view == BuildRowCollection
         IN  \E a \in AnyArgs, pin \in BOOLEAN :
               /\ row_collection' = view
               /\ IF InRange(view[1], a[1], a[2])
                    THEN LET val == RowCollectionGetValue(view[1], a[1], a[2])
                         IN  /\ ret' = Ok("GetValue", a, val)
                             /\ pinned' = Pin(a[1], a[2], val, pin)
                    ELSE /\ ret' = Throw("GetValue", a, IndexError)
                         /\ pinned' = pinned
               /\ UNCHANGED <<success, error, collection, scan_state,
                              scan_initialized, orig, taken, fetched, eos>>

GetValue ==
  IF row_collection = <<>> /\ collection = <<>>
    THEN \E a \in AnyArgs :
           /\ ret' = Throw("GetValue", a, NullPointerError)
           /\ UNCHANGED <<fields, orig, taken, fetched, eos, pinned>>
    ELSE LET view == IF row_collection = <<>>
                       THEN BuildRowCollection
                       ELSE row_collection
         IN  \E a \in AnyArgs, pin \in BOOLEAN :
               /\ row_collection' = view
               /\ IF InRange(view[1], a[1], a[2])
                    THEN LET val == RowCollectionGetValue(view[1], a[1], a[2])
                         IN  /\ ret' = Ok("GetValue", a, val)
                             /\ pinned' = Pin(a[1], a[2], val, pin)
                    ELSE /\ ret' = Throw("GetValue", a, IndexError)
                         /\ pinned' = pinned
               /\ UNCHANGED <<success, error, collection, scan_state,
                              scan_initialized, orig, taken, fetched, eos>>

\* ---- RowCount, Collection, TakeCollection -----------------------------------
RowCount ==
  /\ ret' = Ok("RowCount", <<>>,
               IF collection # <<>> THEN Count(collection[1]) ELSE 0)
  /\ UNCHANGED <<fields, orig, taken, fetched, eos, pinned>>

\* the check both Collection() and TakeCollection() start with: the error
\* kind thrown, "ok" when the store can be handed out
\* faulty variant: a missing store is reported as invalid input
CollectionCheck_OneKind ==
  IF HasError \/ collection = <<>> THEN "invalid_input" ELSE "ok"

\* faulty variant: the store is tested before the error state
CollectionCheck_StoreFirst ==
  IF collection = <<>> THEN "internal"
  ELSE IF HasError THEN "invalid_input"
  ELSE "ok"

CollectionCheck ==
  IF HasError THEN "invalid_input"
  ELSE IF collection = <<>> THEN "internal"
  ELSE "ok"

\* faulty variant: the store is copied out and the result keeps it
MovedFrom_Kept(p) == p

\* a unique_ptr after std::move(p) has been returned: null
MovedFrom(p) == <<>>

Collection ==
  /\ ret' = IF CollectionCheck = "ok"
              THEN Ok("Collection", <<>>, collection[1])
              ELSE Throw("Collection", <<>>, CollectionCheck)
  /\ UNCHANGED <<fields, orig, taken, fetched, eos, pinned>>

\* faulty variant: a result whose store was taken is marked unsuccessful
TakeCollection_MarksError ==
  /\ Len(taken) < MaxTakes
  /\ IF CollectionCheck = "ok"
       THEN /\ ret' = Ok("TakeCollection", <<>>, collection[1])
            /\ taken' = Append(taken, collection[1])
            /\ collection' = MovedFrom(collection)
            /\ success' = FALSE
            /\ UNCHANGED <<error, row_collection, scan_state,
                           scan_initialized, orig, fetched, eos, pinned>>
       ELSE /\ ret' = Throw("TakeCollection", <<>>, CollectionCheck)
            /\ UNCHANGED <<fields, orig, taken, fetched, eos, pinned>>

TakeCollection ==
  /\ Len(taken) < MaxTakes
  /\ IF CollectionCheck = "ok"
       THEN /\ ret' = Ok("TakeCollection", <<>>, collection[1])
            /\ taken' = Append(taken, collection[1])
            /\ collection' = MovedFrom(collection)
            /\ UNCHANGED <<success, error, row_collection, scan_state,
                           scan_initialized, orig, fetched, eos, pinned>>
       ELSE /\ ret' = Throw("TakeCollection", <<>>, CollectionCheck)
            /\ UNCHANGED <<fields, orig, taken, fetched, eos, pinned>>

\* ---- getContents (bulk typed extraction) -------------------------------------
\* faulty variant: the narrow unsigned types are grouped with UINTEGER
VariantKind_UnsignedAsUInt(t) ==
  CASE t = "BOOLEAN" -> "BoolData"
    [] t = "BIGINT" -> "BigIntData"
    [] t = "UBIGINT" -> "UBigIntData"
    [] t \in {"INTEGER", "SMALLINT", "TINYINT"} -> "IntData"
    [] t \in {"UINTEGER", "USMALLINT", "UTINYINT"} -> "UIntData"
    [] t \in {"DOUBLE", "FLOAT", "DECIMAL"} -> "DoubleData"
    [] t = "VARCHAR" -> "StringData"
    [] OTHER -> "StringData"

\* the switch on val.type().id(): the Base subclass built for a non-null value
VariantKind(t) ==
  CASE t = "BOOLEAN" -> "BoolData"
    [] t = "BIGINT" -> "BigIntData"
    [] t = "UBIGINT" -> "UBigIntData"
    [] t \in {"INTEGER", "SMALLINT", "TINYINT", "USMALLINT", "UTINYINT"} -> "IntData"
    [] t = "UINTEGER" -> "UIntData"
    [] t \in {"DOUBLE", "FLOAT", "DECIMAL"} -> "DoubleData"
    [] t = "VARCHAR" -> "StringData"
    [] OTHER -> "StringData"

\* one slot of a row: <<>> is nullptr, <<d>> a variant
ConvertValue(val) ==
  IF ~val.null
    THEN <<[kind |-> VariantKind(val.type), value |-> val.v]>>
    ELSE <<>>

\* faulty variant: a null cell is skipped instead of pushing nullptr
RECURSIVE ConvertRow_SkipNull(_, _, _)
ConvertRow_SkipNull(row, col_idx, ncols) ==
  IF col_idx >= ncols THEN <<>>
  ELSE (IF row[col_idx + 1].null THEN <<>> ELSE <<ConvertValue(row[col_idx + 1])>>)
         \o ConvertRow_SkipNull(row, col_idx + 1, ncols)

\* the inner loop over col_idx: slots pushed for columns col_idx..ColumnCount-1
RECURSIVE ConvertRow(_, _, _)
ConvertRow(row, col_idx, ncols) ==
  IF col_idx >= ncols THEN <<>>
  ELSE <<ConvertValue(row[col_idx + 1])>> \o ConvertRow(row, col_idx + 1, ncols)

\* the outer loop over coll.Rows()
RECURSIVE ConvertRows(_, _)
ConvertRows(rows, ncols) ==
  IF rows = <<>> THEN <<>>
  ELSE <<ConvertRow(Head(rows), 0, ncols)>> \o ConvertRows(Tail(rows), ncols)

\* faulty variant: a missing store is swallowed like an error result
getContentsResult_SwallowMissing ==
  IF ~success \/ collection = <<>> THEN Ok("getContents", <<>>, <<>>)
  ELSE Ok("getContents", <<>>,
          ConvertRows(GetRows(collection[1]), ColumnCount(collection[1])))

\* faulty variant: no early return for an error result
getContentsResult_NoEarlyReturn ==
  IF CollectionCheck # "ok" THEN Throw("getContents", <<>>, CollectionCheck)
  ELSE Ok("getContents", <<>>,
          ConvertRows(GetRows(collection[1]), ColumnCount(collection[1])))

getContentsResult ==
  IF ~success THEN Ok("getContents", <<>>, <<>>)
  ELSE IF CollectionCheck # "ok" THEN Throw("getContents", <<>>, CollectionCheck)
  ELSE Ok("getContents", <<>>,
          ConvertRows(GetRows(collection[1]), ColumnCount(collection[1])))

\* faulty variant: the extraction walks the rows with the streaming cursor
getContents_SharedCursor ==
  /\ ret' = getContentsResult
  /\ IF collection # <<>>
       THEN /\ scan_state' = <<Len(collection[1].chunks)>>
            /\ scan_initialized' = TRUE
       ELSE UNCHANGED <<scan_state, scan_initialized>>
  /\ UNCHANGED <<success, error, collection, row_collection, orig, taken,
                 fetched, eos, pinned>>

\* faulty variant: the extraction moves the store out of the result
getContents_ConsumesStore ==
  /\ ret' = getContentsResult
  /\ collection' = <<>>
  /\ UNCHANGED <<success, error, row_collection, scan_state, scan_initialized,
                 orig, taken, fetched, eos, pinned>>

getContents ==
  /\ ret' = getContentsResult
  /\ UNCHANGED <<fields, orig, taken, fetched, eos, pinned>>

\* ---- ToString, ToBox ----------------------------------------------------------
\* a text is a sequence of string tokens
HeaderToString(coll) == <<"header">> \o coll.types

CellText(val) == IF val.null THEN "NULL" ELSE ToString(val.v)

RECURSIVE RowText(_, _, _)
RowText(row, col_idx, ncols) ==
  IF col_idx >= ncols THEN <<"\n">>
  ELSE (IF col_idx > 0 THEN <<"\t">> ELSE <<>>)
         \o <<CellText(row[col_idx + 1])>> \o RowText(row, col_idx + 1, ncols)

RECURSIVE RowsText(_, _)
RowsText(rows, ncols) ==
  IF rows = <<>> THEN <<>>
  ELSE RowText(Head(rows), 0, ncols) \o RowsText(Tail(rows), ncols)

\* faulty variant: the row count is read before the success test
ToStringResult_CountFirst ==
  IF collection = <<>> THEN Throw("ToString", <<>>, NullPointerError)
  ELSE LET coll == collection[1]
       IN  Ok("ToString", <<>>,
              HeaderToString(coll)
                \o <<"[ Rows: ", ToString(Count(coll)), "]\n">>
                \o RowsText(GetRows(coll), ColumnCount(coll))
                \o <<"\n">>)

ToStringResult ==
  IF success
    THEN IF collection = <<>>
           THEN Throw("ToString", <<>>, NullPointerError)
           ELSE LET coll == collection[1]
                IN  Ok("ToString", <<>>,
                       HeaderToString(coll)
                         \o <<"[ Rows: ", ToString(Count(coll)), "]\n">>
                         \o RowsText(GetRows(coll), ColumnCount(coll))
                         \o <<"\n">>)
    ELSE Ok("ToString", <<>>, <<GetError, "\n">>)

ToStringOp ==
  /\ ret' = ToStringResult
  /\ UNCHANGED <<fields, orig, taken, fetched, eos, pinned>>

MissingCollectionText ==
  <<"Internal error - result was successful but there was no collection">>

\* BoxRenderer::ToString(context, names, collection)
BoxRender(coll) == <<"box">> \o coll.types \o <<ToString(Count(coll))>>

\* faulty variant: no test for a missing store before Collection()
ToBoxResult_NoStoreCheck ==
  IF ~success THEN Ok("ToBox", <<>>, <<GetError, "\n">>)
  ELSE IF CollectionCheck # "ok" THEN Throw("ToBox", <<>>, CollectionCheck)
  ELSE Ok("ToBox", <<>>, BoxRender(collection[1]))

ToBoxResult ==
  IF ~success THEN Ok("ToBox", <<>>, <<GetError, "\n">>)
  ELSE IF collection = <<>> THEN Ok("ToBox", <<>>, MissingCollectionText)
  ELSE Ok("ToBox", <<>>, BoxRender(collection[1]))

ToBox ==
  /\ ret' = ToBoxResult
  /\ UNCHANGED <<fields, orig, taken, fetched, eos, pinned>>

\* ---- HasError, GetError ---------------------------------------------------------
HasErrorOp ==
  /\ ret' = Ok("HasError", <<>>, HasError)
  /\ UNCHANGED <<fields, orig, taken, fetched, eos, pinned>>

GetErrorOp ==
  /\ ret' = Ok("GetError", <<>>, GetError)
  /\ UNCHANGED <<fields, orig, taken, fetched, eos, pinned>>

\* ---- the consumer calls the methods in any order --------------------------------
Next ==
  \/ FetchRaw
  \/ Fetch
  \/ GetValue
  \/ RowCount
  \/ Collection
  \/ TakeCollection
  \/ getContents
  \/ ToStringOp
  \/ ToBox
  \/ HasErrorOp
  \/ GetErrorOp

Spec == Init /\ [][Next]_vars

\* ---- results over every logical type -------------------------------------------
\* the LogicalTypeId tags the switch of getContents names, and two it leaves
\* to its default branch
LogicalTypeIds ==
  {"BOOLEAN", "TINYINT", "SMALLINT", "INTEGER", "BIGINT", "UTINYINT",
   "USMALLINT", "UINTEGER", "UBIGINT", "FLOAT", "DOUBLE", "DECIMAL",
   "VARCHAR", "DATE", "HUGEINT"}

\* the column types of a store: one column of any type, or a column of any
\* type followed by a BOOLEAN (first case of the switch) or a DATE (default)
TypeVectors ==
  {<<t>> : t \in LogicalTypeIds}
    \cup {<<t, u>> : t \in LogicalTypeIds, u \in {"BOOLEAN", "DATE"}}

MakeTypedRow(types, i, nulls) ==
  [c \in 1..Len(types) |-> MakeValue(types[c], <<i, c - 1>> \in nulls, i, c - 1)]

\* a store of one row with the given column types
MakeTypedCollection(types, nulls) ==
  [types |-> types, chunks |-> << <<MakeTypedRow(types, 0, nulls)>> >>]

\* MaterializedQueryResult(statement_type, properties, names, collection, ...)
ConstructTyped ==
  \E types \in TypeVectors :
    \E nulls \in NullSets(1, Len(types)) :
      /\ success = TRUE
      /\ error = ""
      /\ collection = <<MakeTypedCollection(types, nulls)>>
      /\ orig = collection
      /\ row_collection = <<>>
      /\ scan_state = <<>>
      /\ scan_initialized = FALSE

InitTypes == ConstructTyped /\ Observers

SpecTypes == InitTypes /\ [][Next]_vars

\* ---- properties -------------------------------------------------------------------
IsPrefix(a, b) == Len(a) <= Len(b) /\ a = SubSeq(b, 1, Len(a))

Errors == {"invalid_input", "internal"}

Failed == ret.status \in Errors /\ ret.val = <<>>

\* the rows of the store the result was constructed with
OrigRows == GetRows(orig[1])

\* a full sequential scan of a store: the batches of Scan from a fresh cursor
\* up to the first empty one, concatenated
RECURSIVE ScanAll(_, _)
ScanAll(coll, st) ==
  IF ScanChunk(coll, st) = <<>> THEN <<>>
  ELSE ScanChunk(coll, st) \o ScanAll(coll, ScanNext(coll, st))

FullScan(coll) == ScanAll(coll, InitializeScan)

\* C1: on a successful result whose store was never transferred out, FetchRaw
\* never fails, every batch it returns is non-empty, the rows delivered so far
\* are a prefix of the store's rows (original order, no gap, no duplicate), a
\* no-value signal is returned only once all N rows have been delivered, and
\* no batch is returned after a no-value signal.
C1_FetchDeliversAllRowsOnce ==
  (success /\ taken = <<>>) =>
    /\ IsPrefix(fetched, OrigRows)
    /\ (eos > 0 => fetched = OrigRows)
    /\ (ret.op = "FetchRaw" =>
          /\ ret.status = "ok"
          /\ (ret.val # <<>> =>
                /\ Len(ret.val[1]) > 0
                /\ eos = 0
                /\ Len(ret.val[1]) <= Len(fetched)
                /\ ret.val[1] = SubSeq(fetched, Len(fetched) - Len(ret.val[1]) + 1,
                                       Len(fetched)))
          /\ (ret.val = <<>> => eos > 0))

\* all rows of a three-row store delivered in two batches, then two no-value
\* signals
C1_Witness ==
  /\ success
  /\ taken = <<>>
  /\ ret.op = "FetchRaw"
  /\ ret.val = <<>>
  /\ eos >= 2
  /\ Len(fetched) >= 3

\* C2 (as claimed): every GetValue call made after a successful
\* TakeCollection fails.
C2_GetValueFailsAfterTake ==
  (ret.op = "GetValue" /\ ret.taken_before) => Failed

\* C3: every FetchRaw / Fetch call and every getContents call made after a
\* successful TakeCollection fails with an error and returns nothing.
C3_FetchAndExtractFailAfterTake ==
  (ret.op \in {"FetchRaw", "getContents"} /\ ret.taken_before) => Failed

\* getContents after the store of an exhausted result was taken
C3_Witness ==
  /\ ret.op = "getContents"
  /\ ret.taken_before
  /\ scan_initialized
  /\ eos > 0

\* C4: on a successful result the first TakeCollection succeeds and returns
\* the store; every Collection / TakeCollection call after it fails with an
\* internal error.
C4_TakeOnceThenInternal ==
  success =>
    /\ (ret.op = "TakeCollection" /\ ~ret.taken_before =>
          /\ ret.status = "ok"
          /\ ret.val = orig
          /\ taken = orig)
    /\ (ret.op \in {"Collection", "TakeCollection"} /\ ret.taken_before =>
          /\ ret.status = "internal"
          /\ ret.val = <<>>)

\* a second TakeCollection
C4_Witness ==
  /\ success
  /\ ret.op = "TakeCollection"
  /\ ret.taken_before
  /\ taken = orig

\* C5 (as claimed): GetValue on an error result fails with invalid-input and
\* never builds the view.
C5_GetValueInvalidInputOnError ==
  (~success /\ ret.op = "GetValue") =>
    /\ ret.status = "invalid_input"
    /\ ret.val = <<>>
    /\ row_collection = <<>>

\* C6: on an error result Collection, TakeCollection and FetchRaw / Fetch
\* fail with invalid-input on every call.
C6_InvalidInputOnError ==
  (~success /\ ret.op \in {"Collection", "TakeCollection", "FetchRaw"}) =>
    /\ ret.status = "invalid_input"
    /\ ret.val = <<>>
    /\ collection = <<>>
    /\ taken = <<>>

C6_Witness ==
  /\ ~success
  /\ ret.op = "TakeCollection"
  /\ ret.status = "invalid_input"

\* C7: on an error result getContents returns the empty matrix without an
\* error, and each of the other operations that hand out row data
\* (Collection, TakeCollection, FetchRaw / Fetch, GetValue) fails.
C7_ExtractSwallowsError ==
  ~success =>
    /\ (ret.op = "getContents" => ret.status = "ok" /\ ret.val = << <<>> >>)
    /\ (ret.op \in {"Collection", "TakeCollection", "FetchRaw", "GetValue"} =>
          Failed)

C7_Witness ==
  /\ ~success
  /\ ret.op = "getContents"
  /\ ret.status = "ok"

\* C8: getContents on a successful result that holds its store returns one
\* row per store row, in order, each with ColumnCount slots; a slot is absent
\* exactly when the source cell is null, and a present slot carries the
\* cell's payload.
C8_MatrixShape ==
  (success /\ ret.op = "getContents" /\ collection # <<>>) =>
    /\ ret.status = "ok"
    /\ LET m == ret.val[1]
           rows == GetRows(collection[1])
       IN  /\ Len(m) = Count(collection[1])
           /\ \A i \in 1..Len(m) :
                /\ Len(m[i]) = ColumnCount(collection[1])
                /\ \A c \in 1..Len(m[i]) :
                     /\ (m[i][c] = <<>>) <=> rows[i][c].null
                     /\ m[i][c] # <<>> => m[i][c][1].value = rows[i][c].v

\* a three-row, two-column matrix with a row of two absent slots
C8_Witness ==
  /\ success
  /\ ret.op = "getContents"
  /\ ret.status = "ok"
  /\ Len(ret.val[1]) = 3
  /\ \E i \in 1..3 : ret.val[1][i] = << <<>>, <<>> >>
  /\ \E i \in 1..3 : Len(ret.val[1][i]) = 2 /\ ret.val[1][i][1] # <<>>

\* C9: on a successful result that holds its store, GetValue(c, i) with c
\* and i in range returns the c-th cell of the i-th row of a full sequential scan of the store (and,
\* once FetchRaw has delivered row i, of the row FetchRaw delivered), and a
\* repeated call with the same arguments returns the value the earlier call
\* returned.
C9_GetValueMatchesScan ==
  (/\ success
   /\ ret.op = "GetValue"
   /\ collection # <<>>
   /\ ret.args[1] < ColumnCount(collection[1])
   /\ ret.args[2] < Count(collection[1])) =>
    /\ ret.status = "ok"
    /\ LET column == ret.args[1]
           index == ret.args[2]
       IN  /\ index < Len(FullScan(collection[1]))
           /\ ret.val[1] = FullScan(collection[1])[index + 1][column + 1]
           /\ index < Len(fetched) => ret.val[1] = fetched[index + 1][column + 1]
           /\ (pinned # <<>> /\ pinned[1].column = column /\ pinned[1].index = index)
                => ret.val[1] = pinned[1].val

\* the third row asked again after the whole store has been streamed
C9_Witness ==
  /\ success
  /\ collection # <<>>
  /\ ret.op = "GetValue"
  /\ ret.status = "ok"
  /\ ret.args[2] = 2
  /\ eos > 0
  /\ pinned # <<>>
  /\ pinned[1].column = ret.args[1]
  /\ pinned[1].index = ret.args[2]

\* C10: the store has at most one owner: at most one TakeCollection ever
\* returns it, what it returns is the store the result was constructed with,
\* and once the caller has it the result holds no store.
C10_SingleOwner ==
  /\ Len(taken) <= 1
  /\ (taken # <<>> => collection = <<>> /\ taken = orig)
  /\ (collection # <<>> => collection = orig)

\* the store is with the caller and a later TakeCollection got nothing
C10_Witness ==
  /\ Len(taken) = 1
  /\ collection = <<>>
  /\ ret.op = "TakeCollection"
  /\ ret.taken_before

\* C11: an error result never holds a store; a successful result holds the
\* store it was constructed with in every state reached before a
\* TakeCollection has succeeded, whatever else was called and whether or
\* not those calls failed.
C11_StoreHeldUntilTaken ==
  /\ ~success => collection = <<>> /\ taken = <<>>
  /\ (success /\ taken = <<>>) => (collection # <<>> /\ collection = orig)

\* the store is still held after the stream was exhausted, the view was built
\* and a call has failed
C11_Witness ==
  /\ success
  /\ taken = <<>>
  /\ collection # <<>>
  /\ eos > 0
  /\ row_collection # <<>>
  /\ ret.status \in Errors

\* what every step does to the scan cursor: the scan-started flag is set by
\* the first successful FetchRaw and never cleared, a started cursor stays
\* or moves on by one chunk, and the rows delivered only grow, within the
\* store's rows
CursorNeverReset ==
  /\ scan_initialized => scan_initialized'
  /\ (~scan_initialized /\ scan_initialized') =>
       (ret'.op = "FetchRaw" /\ ret'.status = "ok")
  /\ (~scan_initialized /\ ret'.op = "FetchRaw" /\ ret'.status = "ok") =>
       scan_initialized'
  /\ scan_initialized =>
       \/ scan_state' = scan_state
       \/ scan_state' # <<>> /\ scan_state'[1] = scan_state[1] + 1
  /\ success => (IsPrefix(fetched, fetched') /\ IsPrefix(fetched', OrigRows))
  /\ (success /\ eos > 0 /\ ret'.op = "FetchRaw" /\ ret'.status = "ok") =>
       ret'.val = <<>>

\* C12 (as claimed): the cursor is initialized at most once, the flag is
\* never cleared, delivered rows are never delivered again, and no FetchRaw
\* call made after the scan has started raises an error.
C12_NoLaterFetchFails ==
  [][/\ CursorNeverReset
     /\ (scan_initialized /\ ret'.op = "FetchRaw") => ret'.status = "ok"]_vars

\* C12 (amended): as claimed, except that only the FetchRaw calls made while
\* the result still holds its store are free of errors.
C12_CursorInitializedOnce ==
  [][/\ CursorNeverReset
     /\ (scan_initialized /\ collection # <<>> /\ ret'.op = "FetchRaw") =>
          ret'.status = "ok"]_vars

\* the stream was exhausted twice over, with a GetValue in between, and the
\* cursor stands at the end
C12_Witness ==
  /\ success
  /\ collection # <<>>
  /\ scan_initialized
  /\ scan_state = <<Len(collection[1].chunks)>>
  /\ Len(collection[1].chunks) >= 2
  /\ eos >= 2
  /\ row_collection # <<>>
  /\ ret.op = "FetchRaw"

\* the chunks a cursor has passed
DeliveredRows(coll, st) ==
  IF st = <<>> THEN <<>> ELSE Flatten(SubSeq(coll.chunks, 1, st[1]))

\* the operations that are neither FetchRaw nor TakeCollection leave cursor,
\* flag and delivered rows alone, and FetchRaw leaves the cached view alone
IndependentState ==
  /\ ret'.op \in {"GetValue", "getContents", "ToString", "ToBox", "RowCount",
                  "Collection"} =>
       UNCHANGED <<scan_state, scan_initialized, fetched, eos>>
  /\ ret'.op = "FetchRaw" => UNCHANGED <<row_collection, pinned>>

\* on a successful result that keeps its store, what FetchRaw has delivered
\* is decided by the cursor alone (the k-th batch is the store's k-th
\* chunk), and what GetValue and getContents return is decided by the store
\* alone
IndependentResults ==
  (success /\ taken = <<>>) =>
    /\ fetched = DeliveredRows(orig[1], scan_state)
    /\ scan_initialized <=> scan_state # <<>>
    /\ (ret.op = "FetchRaw" /\ ret.val # <<>>) =>
         ret.val[1] = orig[1].chunks[scan_state[1]]
    /\ (ret.op = "GetValue" /\ ret.status = "ok") =>
         ret.val[1] = OrigRows[ret.args[2] + 1][ret.args[1] + 1]
    /\ (ret.op = "getContents") =>
         /\ ret.status = "ok"
         /\ Len(ret.val[1]) = Len(OrigRows)
         /\ \A i \in 1..Len(OrigRows) : \A c \in 1..Len(OrigRows[i]) :
              ret.val[1][i][c] = ConvertValue(OrigRows[i][c])

\* C13: streaming fetch, random lookup and bulk extraction keep independent
\* state: GetValue, getContents, ToString, RowCount and Collection never
\* change the scan cursor or the scan-started flag, FetchRaw never changes
\* the cached view, and on a successful result that keeps its store the
\* batches FetchRaw returns and the answers of GetValue and getContents are
\* those of an uninterleaved use.
C13_IndependentState == [][IndependentState]_vars /\ []IndependentResults

\* the second batch is delivered after GetValue has built the view
C13_Witness ==
  /\ success
  /\ taken = <<>>
  /\ ret.op = "FetchRaw"
  /\ ret.val # <<>>
  /\ scan_state = <<2>>
  /\ row_collection # <<>>
  /\ pinned # <<>>

\* C14: ToString on an error result returns the error text followed by one
\* newline, without failing on the absent store; RowCount never fails and
\* returns 0 on an error result and on a result whose store was transferred
\* out, and the store's row count otherwise.
C14_ErrorTextAndRowCount ==
  /\ (~success /\ ret.op = "ToString") =>
       /\ ret.status = "ok"
       /\ error \in ErrorMessages
       /\ ret.val = << <<error, "\n">> >>
  /\ ret.op = "RowCount" =>
       /\ ret.status = "ok"
       /\ ret.val = <<IF success /\ taken = <<>> THEN Len(OrigRows) ELSE 0>>

C14_Witness ==
  /\ ~success
  /\ ret.op = "ToString"
  /\ ret.val = << <<"division by zero", "\n">> >>

\* the mapping of the claim: logical type, variant kind; a type it does not
\* list becomes a StringData
KindTable ==
  {<<"BOOLEAN", "BoolData">>, <<"BIGINT", "BigIntData">>,
   <<"UBIGINT", "UBigIntData">>, <<"INTEGER", "IntData">>,
   <<"SMALLINT", "IntData">>, <<"TINYINT", "IntData">>,
   <<"USMALLINT", "IntData">>, <<"UTINYINT", "IntData">>,
   <<"UINTEGER", "UIntData">>, <<"FLOAT", "DoubleData">>,
   <<"DOUBLE", "DoubleData">>, <<"DECIMAL", "DoubleData">>,
   <<"VARCHAR", "StringData">>}

KindsClaimed(t) ==
  IF \E p \in KindTable : p[1] = t
    THEN {p[2] : p \in {q \in KindTable : q[1] = t}}
    ELSE {"StringData"}

\* C15: for every non-null cell getContents produces exactly one variant,
\* whose kind is the one the mapping gives for the cell's logical type, and
\* the mapping gives exactly one kind for every type.
C15_KindByType ==
  /\ \A t \in LogicalTypeIds : Cardinality(KindsClaimed(t)) = 1
  /\ (success /\ ret.op = "getContents" /\ ret.status = "ok") =>
       LET rows == GetRows(collection[1])
       IN  \A i \in 1..Len(rows) : \A c \in 1..Len(rows[i]) :
             ~rows[i][c].null =>
               /\ Len(ret.val[1][i][c]) = 1
               /\ KindsClaimed(rows[i][c].type) = {ret.val[1][i][c][1].kind}

\* a row of a USMALLINT and a DATE extracted as an IntData and a StringData
C15_Witness ==
  /\ success
  /\ ret.op = "getContents"
  /\ ret.status = "ok"
  /\ collection # <<>>
  /\ collection[1].types = <<"USMALLINT", "DATE">>
  /\ ret.val[1][1][1] # <<>>
  /\ ret.val[1][1][1][1].kind = "IntData"
  /\ ret.val[1][1][2] # <<>>
  /\ ret.val[1][1][2][1].kind = "StringData"

\* what every step does to the random-access view: a view that exists is
\* kept as it is; a view appears only in a GetValue call, as the full row
\* set of the store then held; the first GetValue on a held store builds it;
\* a GetValue that finds a view answers from it
ViewBuiltOnce ==
  /\ row_collection # <<>> => row_collection' = row_collection
  /\ (row_collection = <<>> /\ row_collection' # <<>>) =>
       /\ ret'.op = "GetValue"
       /\ collection # <<>>
       /\ row_collection' = <<GetRows(collection[1])>>
       /\ Len(row_collection'[1]) = Count(collection[1])
  /\ (row_collection = <<>> /\ collection # <<>> /\ ret'.op = "GetValue") =>
       row_collection' # <<>>
  /\ (/\ row_collection # <<>>
      /\ ret'.op = "GetValue"
      /\ InRange(row_collection[1], ret'.args[1], ret'.args[2])) =>
       /\ ret'.status = "ok"
       /\ ret'.val = <<row_collection[1][ret'.args[2] + 1][ret'.args[1] + 1]>>

\* C16: the random-access view is absent until the first GetValue call, that
\* call builds it from the store's full row set, every later GetValue call
\* uses the cached view, and no other operation builds, replaces or clears
\* it.
C16_ViewBuiltOnce == (row_collection = <<>>) /\ [][ViewBuiltOnce]_vars

\* a GetValue answered from the cached view after the store has left
C16_Witness ==
  /\ row_collection # <<>>
  /\ collection = <<>>
  /\ ret.op = "GetValue"
  /\ ret.status = "ok"
  /\ ret.taken_before
  /\ scan_initialized

\* what ToBox returns on a successful result: the fixed message when the
\* store is absent, the box renderer's text otherwise
ToBoxOnSuccess ==
  (success /\ ret.op = "ToBox") =>
    /\ ret.status = "ok"
    /\ collection = <<>> => ret.val = <<MissingCollectionText>>
    /\ collection # <<>> => ret.val = <<BoxRender(collection[1])>>

\* C17 (as claimed): ToBox never raises; on an error result it returns the
\* error text, on a successful result without store the fixed message, and
\* otherwise the box renderer's text.
C17_ToBoxReturnsErrorText ==
  /\ (~success /\ ret.op = "ToBox") =>
       (ret.status = "ok" /\ ret.val = << <<error>> >>)
  /\ ToBoxOnSuccess

\* C17 (amended): as claimed, except that on an error result ToBox returns
\* the error text followed by a newline.
C17_ToBoxNeverRaises ==
  /\ (~success /\ ret.op = "ToBox") =>
       (ret.status = "ok" /\ ret.val = << <<error, "\n">> >>)
  /\ ToBoxOnSuccess

\* ToBox on a successful result whose store was taken
C17_Witness ==
  /\ success
  /\ collection = <<>>
  /\ ret.op = "ToBox"
  /\ ret.val = <<MissingCollectionText>>

\* no step changes the status or the error text, or gives an error result a
\* store or a view; HasError and GetError change nothing at all
StatusFixed ==
  /\ success' = success
  /\ error' = error
  /\ ~success => (collection' = <<>> /\ row_collection' = <<>> /\ taken' = <<>>)
  /\ ret'.op \in {"HasError", "GetError"} =>
       UNCHANGED <<fields, orig, taken, fetched, eos, pinned>>

\* HasError and GetError never fail and answer with the status and the error
\* text the result was constructed with (orig is empty for an error result)
StatusAnswers ==
  /\ success <=> orig # <<>>
  /\ ~success <=> error \in ErrorMessages
  /\ ret.op = "HasError" => (ret.status = "ok" /\ ret.val = <<orig = <<>>>>)
  /\ ret.op = "GetError" => (ret.status = "ok" /\ ret.val = <<error>>)
  /\ (~success /\ ret.op \in {"Collection", "TakeCollection", "FetchRaw",
                              "GetValue"}) => Failed

\* C18: the success/error status is fixed at construction: HasError and
\* GetError keep returning the same answer, never fail and never change
\* state, and no operation turns an error result into a successful one or
\* gives it a row store.
C18_StatusFixed == [][StatusFixed]_vars /\ []StatusAnswers

\* HasError answered on an error result
C18_Witness ==
  /\ ~success
  /\ ret.op = "HasError"
  /\ ret.val = <<TRUE>>

\* a failing call leaves status, store, ownership, cursor, flag and delivered
\* rows as they were
FailureKeepsStoreAndCursor ==
  ret'.status \in Errors =>
    UNCHANGED <<success, error, collection, scan_state, scan_initialized,
                orig, taken, fetched, eos, pinned>>

\* C19 (as claimed): every operation that fails leaves the state of the
\* result unchanged, the cached row view included.
C19_FailureChangesNothing ==
  [][/\ FailureKeepsStoreAndCursor
     /\ ret'.status \in Errors => row_collection' = row_collection]_vars

\* C19 (amended): as claimed, except for the cached view: a failing call
\* never discards or replaces a view, and creates one only when it is a
\* GetValue with arguments out of range on a result that holds its store and
\* has no view yet.
C19_FailureKeepsState ==
  [][/\ FailureKeepsStoreAndCursor
     /\ ret'.status \in Errors =>
          /\ row_collection # <<>> => row_collection' = row_collection
          /\ collection = <<>> => row_collection' = row_collection
          /\ row_collection' # row_collection =>
               /\ ret'.op = "GetValue"
               /\ ret'.status = IndexError
               /\ row_collection' = <<GetRows(collection[1])>>
               /\ ~InRange(row_collection'[1], ret'.args[1], ret'.args[2])]_vars

\* a FetchRaw that failed on a result whose store was taken before any scan
C19_Witness ==
  /\ success
  /\ ret.op = "FetchRaw"
  /\ ret.status = "internal"
  /\ ret.taken_before
  /\ ~scan_initialized
  /\ scan_state = <<>>
  /\ fetched = <<>>
====
